---- MODULE Spec2Model ----
(***************************************************************************)
(* The agent output parsers of langchain:                                  *)
(*   StructuredChatOutputParser            (agents/structured_chat)        *)
(*   StructuredChatOutputParserWithRetries (agents/structured_chat)        *)
(*   ConvoOutputParser                     (agents/conversational_chat)    *)
(*                                                                         *)
(* A text is a sequence of atoms.  The backtick is an atom of its own, so  *)
(* the regular expression of the parser is modelled backtick by backtick;  *)
(* every other atom is one lexical token of JSON, one blank, the tag       *)
(* "json" or one piece of prose, and holds no backtick.                    *)
(***************************************************************************)
EXTENDS Integers, Sequences, FiniteSets, TLC

\* one backtick character (a string of TLA+ cannot hold the character itself)
BT == "BACKTICK"
WS == " "
TAG == "json"
PROSE == "x"

\* The JSON string literals of the model and the Python str each decodes to.
StrLits == {"\"action\"", "\"action_input\"", "\"Final Answer\"",
            "\"final answer\"", "\"Search\"", "\"X\""}

Unquote(a) ==
    CASE a = "\"action\"" -> "action"
      [] a = "\"action_input\"" -> "action_input"
      [] a = "\"Final Answer\"" -> "Final Answer"
      [] a = "\"final answer\"" -> "final answer"
      [] a = "\"Search\"" -> "Search"
      [] a = "\"X\"" -> "X"

Quote(s) ==
    CASE s = "action" -> "\"action\""
      [] s = "action_input" -> "\"action_input\""
      [] s = "Final Answer" -> "\"Final Answer\""
      [] s = "final answer" -> "\"final answer\""
      [] s = "Search" -> "\"Search\""
      [] s = "X" -> "\"X\""

NumLits == {"7"}

(***************************************************************************)
(* Python values: what json.loads returns, and the str of a raw text.      *)
(***************************************************************************)
PyStr(s) == [t |-> "str", s |-> s]
PyInt(a) == [t |-> "int", n |-> a]
PyDict(f) == [t |-> "dict", f |-> f]
PyList(es) == [t |-> "list", es |-> es]
PyText(atoms) == [t |-> "text", atoms |-> atoms]
PyNone == [t |-> "None"]

EmptyDict == PyDict(<<>>)

IsDict(v) == v.t = "dict"
IsList(v) == v.t = "list"
HasKey(v, k) == IsDict(v) /\ k \in DOMAIN v.f

(***************************************************************************)
(* json.loads over the atoms of a document.                                *)
(***************************************************************************)
JOk(v, n) == [ok |-> TRUE, val |-> v, next |-> n]
JFail == [ok |-> FALSE, val |-> PyNone, next |-> 0]

RECURSIVE SkipWs(_, _)
SkipWs(toks, i) ==
    IF i <= Len(toks) /\ toks[i] = WS THEN SkipWs(toks, i + 1) ELSE i

RECURSIVE ParseValue(_, _)
RECURSIVE ParseMembers(_, _, _)
RECURSIVE ParseElems(_, _, _)

\* "key" : value , ... }   after the opening brace; a later key overrides
ParseMembers(toks, i0, f) ==
    LET i == SkipWs(toks, i0) IN
    IF i > Len(toks) \/ toks[i] \notin StrLits THEN JFail
    ELSE LET c == SkipWs(toks, i + 1) IN
         IF c > Len(toks) \/ toks[c] # ":" THEN JFail
         ELSE LET r == ParseValue(toks, c + 1) IN
              IF ~r.ok THEN JFail
              ELSE LET k == Unquote(toks[i])
                       g == [x \in (DOMAIN f) \cup {k} |->
                                IF x = k THEN r.val ELSE f[x]]
                       e == SkipWs(toks, r.next)
                   IN IF e > Len(toks) THEN JFail
                      ELSE IF toks[e] = "}" THEN JOk(PyDict(g), e + 1)
                      ELSE IF toks[e] = "," THEN ParseMembers(toks, e + 1, g)
                      ELSE JFail

\* value , ... ]   after the opening bracket
ParseElems(toks, i0, es) ==
    LET r == ParseValue(toks, i0) IN
    IF ~r.ok THEN JFail
    ELSE LET e == SkipWs(toks, r.next) IN
         IF e > Len(toks) THEN JFail
         ELSE IF toks[e] = "]" THEN JOk(PyList(Append(es, r.val)), e + 1)
         ELSE IF toks[e] = "," THEN ParseElems(toks, e + 1, Append(es, r.val))
         ELSE JFail

ParseValue(toks, i0) ==
    LET i == SkipWs(toks, i0) IN
    IF i > Len(toks) THEN JFail
    ELSE IF toks[i] = "{" THEN
        LET j == SkipWs(toks, i + 1) IN
        IF j <= Len(toks) /\ toks[j] = "}" THEN JOk(EmptyDict, j + 1)
        ELSE ParseMembers(toks, j, <<>>)
    ELSE IF toks[i] = "[" THEN
        LET j == SkipWs(toks, i + 1) IN
        IF j <= Len(toks) /\ toks[j] = "]" THEN JOk(PyList(<<>>), j + 1)
        ELSE ParseElems(toks, j, <<>>)
    ELSE IF toks[i] \in StrLits THEN JOk(PyStr(Unquote(toks[i])), i + 1)
    ELSE IF toks[i] \in NumLits THEN JOk(PyInt(toks[i]), i + 1)
    ELSE JFail

\* json.loads(s): one value, then nothing but blanks
JsonLoads(toks) ==
    LET r == ParseValue(toks, 1) IN
    IF r.ok /\ SkipWs(toks, r.next) > Len(toks) THEN r ELSE JFail

(***************************************************************************)
(* Exceptions, and the two values parse returns.  cause is the chain of    *)
(* __cause__ of an exception, as the types from the nearest cause on.      *)
(***************************************************************************)
Exc(type, message, cause) == [type |-> type, message |-> message, cause |-> cause]
NoExc == Exc("None", <<>>, <<>>)

\* OutputParserException(f"Could not parse LLM output: {text}") from e
CouldNotParse(text, e) ==
    Exc("OutputParserException", <<"Could not parse LLM output: ", text>>,
        <<e.type>> \o e.cause)

\* OutputParserException(f"Missing 'action' or 'action_input' in LLM output: {text}")
MissingKeys(text) ==
    Exc("OutputParserException",
        <<"Missing 'action' or 'action_input' in LLM output: ", text>>, <<>>)

AgentAction(tool, tool_input, log) ==
    [kind |-> "Action", tool |-> tool, tool_input |-> tool_input, log |-> log]
AgentFinish(output, log) ==
    [kind |-> "Finish", return_values |-> [output |-> output], log |-> log]
Failed(e) == [kind |-> "Failed", error |-> e]
NoOutcome == [kind |-> "None"]

\* what the body of a try block did: returned a value or raised
Ret(v) == [raised |-> FALSE, value |-> v, exc |-> NoExc]
Raise(type) == [raised |-> TRUE, value |-> PyNone, exc |-> Exc(type, <<>>, <<>>)]
RaiseExc(e) == [raised |-> TRUE, value |-> PyNone, exc |-> e]

(***************************************************************************)
(* re.search(r"```(.*?)```?", text, re.DOTALL): the leftmost three         *)
(* backticks that two backticks follow, the group running lazily to the    *)
(* first two backticks after them; the third closing backtick is optional. *)
(***************************************************************************)
TripleAt(t, i) ==
    i + 2 <= Len(t) /\ t[i] = BT /\ t[i + 1] = BT /\ t[i + 2] = BT
DoubleAt(t, i) == i + 1 <= Len(t) /\ t[i] = BT /\ t[i + 1] = BT

Least(S) == CHOOSE m \in S : \A n \in S : m <= n

NoMatch == [matched |-> FALSE, group1 |-> <<>>]

ReSearch(text) ==
    LET starts == {i \in 1..Len(text) :
                      /\ TripleAt(text, i)
                      /\ \E j \in (i + 3)..Len(text) : DoubleAt(text, j)}
    IN IF starts = {} THEN NoMatch
       ELSE LET i == Least(starts)
                j == Least({k \in (i + 3)..Len(text) : DoubleAt(text, k)})
            IN [matched |-> TRUE, group1 |-> SubSeq(text, i + 3, j - 1)]

\* str.strip()
RECURSIVE RStrip(_)
RStrip(s) ==
    IF s # <<>> /\ s[Len(s)] = WS THEN RStrip(SubSeq(s, 1, Len(s) - 1)) ELSE s
Strip(s) == LET i == SkipWs(s, 1) IN RStrip(SubSeq(s, i, Len(s)))

(***************************************************************************)
(* response[key], response.get(key, default) and key in response, on a     *)
(* value of any type json.loads returns.                                   *)
(***************************************************************************)
Subscript(response, key) ==
    IF IsDict(response)
    THEN IF key \in DOMAIN response.f THEN Ret(response.f[key])
         ELSE Raise("KeyError")
    ELSE Raise("TypeError")

DictGet(response, key, default) ==
    IF key \in DOMAIN response.f THEN response.f[key] ELSE default

\* the strings of the model that hold the key as a substring
Substring(key, s) == s = key \/ (key = "action" /\ s = "action_input")

Contains(response, key) ==
    CASE IsDict(response) -> Ret(key \in DOMAIN response.f)
      [] IsList(response) ->
            Ret(\E n \in 1..Len(response.es) : response.es[n] = PyStr(key))
      [] response.t = "str" -> Ret(Substring(key, response.s))
      [] OTHER -> Raise("TypeError")

FINAL_ANSWER == PyStr("Final Answer")

(***************************************************************************)
(* StructuredChatOutputParser.parse                                        *)
(***************************************************************************)
\* lines 35-41: the conditional expression on the record
StructuredDecide(response, text) ==
    LET action == Subscript(response, "action") IN
    IF action.raised THEN action
    ELSE IF action.value = FINAL_ANSWER
         THEN LET action_input == Subscript(response, "action_input") IN
              IF action_input.raised THEN action_input
              ELSE Ret(AgentFinish(action_input.value, text))
         ELSE Ret(AgentAction(action.value,
                              DictGet(response, "action_input", EmptyDict), text))

\* FirstOfList taking the last element of the list, response[-1]
MutFirstOfListLast(response) ==
    IF IsList(response)
    THEN IF Len(response.es) = 0 THEN Raise("IndexError")
         ELSE Ret(response.es[Len(response.es)])
    ELSE Ret(response)

\* lines 31-34: a list stands for its first element
FirstOfList(response) ==
    IF IsList(response)
    THEN IF Len(response.es) = 0 THEN Raise("IndexError") ELSE Ret(response.es[1])
    ELSE Ret(response)

\* StructuredTry without the return in the branch of no match
MutStructuredTryNoReturn(text) ==
    LET action_match == ReSearch(text) IN
    IF ~action_match.matched THEN Ret(NoOutcome)
    ELSE LET loaded == JsonLoads(Strip(action_match.group1)) IN
         IF ~loaded.ok THEN Raise("JSONDecodeError")
         ELSE LET response == FirstOfList(loaded.val) IN
              IF response.raised THEN response
              ELSE StructuredDecide(response.value, text)

\* lines 27-41: the body of the try block
StructuredTry(text) ==
    LET action_match == ReSearch(text) IN
    IF ~action_match.matched THEN Ret(AgentFinish(PyText(text), text))
    ELSE LET loaded == JsonLoads(Strip(action_match.group1)) IN
         IF ~loaded.ok THEN Raise("JSONDecodeError")
         ELSE LET response == FirstOfList(loaded.val) IN
              IF response.raised THEN response
              ELSE StructuredDecide(response.value, text)

\* ExceptException catching json.JSONDecodeError alone
MutExceptJsonOnly(tried, text) ==
    IF tried.raised
    THEN IF tried.exc.type = "JSONDecodeError"
         THEN Failed(CouldNotParse(text, tried.exc))
         ELSE Failed(tried.exc)
    ELSE tried.value

\* except Exception as e: raise OutputParserException(...) from e
ExceptException(tried, text) ==
    IF tried.raised THEN Failed(CouldNotParse(text, tried.exc)) ELSE tried.value

StructuredParse(text) == ExceptException(StructuredTry(text), text)

(***************************************************************************)
(* ConvoOutputParser.parse                                                 *)
(***************************************************************************)
\* langchain.output_parsers.json.parse_json_markdown: the content of the
\* first block fenced by three backticks on either side, its tag json left
\* out, or the whole text when there is no such block; json.loads of that.
ParseJsonMarkdown(text) ==
    LET starts == {i \in 1..Len(text) :
                      /\ TripleAt(text, i)
                      /\ \E j \in (i + 3)..Len(text) : TripleAt(text, j)}
        json_str ==
            IF starts = {} THEN text
            ELSE LET i == Least(starts)
                     j == Least({k \in (i + 3)..Len(text) : TripleAt(text, k)})
                     inner == SubSeq(text, i + 3, j - 1)
                 IN IF inner # <<>> /\ inner[1] = TAG THEN Tail(inner) ELSE inner
        loaded == JsonLoads(Strip(json_str))
    IN IF loaded.ok THEN Ret(loaded.val) ELSE Raise("JSONDecodeError")

\* ConvoDecide with the lenient parser's default for a missing action_input
MutConvoDecideDefault(response, text) ==
    LET has_action == Contains(response, "action") IN
    IF has_action.raised THEN has_action
    ELSE IF ~has_action.value THEN RaiseExc(MissingKeys(text))
    ELSE LET action == Subscript(response, "action") IN
         IF action.raised THEN action
         ELSE LET action_input == DictGet(response, "action_input", EmptyDict) IN
              IF action.value = FINAL_ANSWER
              THEN Ret(AgentFinish(action_input, text))
              ELSE Ret(AgentAction(action.value, action_input, text))

\* lines 30-43, on the value parse_json_markdown returned
ConvoDecide(response, text) ==
    LET has_action == Contains(response, "action") IN
    IF has_action.raised THEN has_action
    ELSE IF ~has_action.value THEN RaiseExc(MissingKeys(text))
    ELSE LET has_input == Contains(response, "action_input") IN
         IF ~has_input.value THEN RaiseExc(MissingKeys(text))
         ELSE LET action == Subscript(response, "action")
                  action_input == Subscript(response, "action_input")
              IN IF action.raised THEN action
                 ELSE IF action_input.raised THEN action_input
                 ELSE IF action.value = FINAL_ANSWER
                      THEN Ret(AgentFinish(action_input.value, text))
                      ELSE Ret(AgentAction(action.value, action_input.value, text))

\* lines 28-43: the body of the try block
ConvoTry(text) ==
    LET response == ParseJsonMarkdown(text) IN
    IF response.raised THEN response ELSE ConvoDecide(response.value, text)

ConvoParse(text) == ExceptException(ConvoTry(text), text)

(***************************************************************************)
(* StructuredChatOutputParserWithRetries                                   *)
(***************************************************************************)
\* parse of the parser object a field names
ParserParse(p, text) ==
    IF p = "structured" THEN StructuredParse(text) ELSE ConvoParse(text)

\* a returned outcome, or the exception a failed one raised
AsTried(outcome) ==
    IF outcome.kind = "Failed" THEN RaiseExc(outcome.error) ELSE Ret(outcome)

\* RetriesParseBase without its exception handler
MutRetriesParseBaseBare(bp, text) == ParserParse(bp, text)

\* lines 61-69, output_fixing_parser is None
RetriesParseBase(bp, text) == ExceptException(AsTried(ParserParse(bp, text)), text)

\* RetriesExcept letting the exception through as it was raised
MutRetriesExceptBare(tried, text) ==
    IF tried.raised THEN Failed(tried.exc) ELSE tried.value

\* lines 61-69, the exception handler around output_fixing_parser.parse
RetriesExcept(tried, text) == ExceptException(tried, text)

(***************************************************************************)
(* The texts the model passes to parse.                                    *)
(***************************************************************************)
MaxPad == 1      \* pieces of prose before and after a block
MaxElems == 2    \* records of a list

Fence == <<BT, BT, BT>>

RECURSIVE Pad(_)
Pad(n) == IF n = 0 THEN <<>> ELSE <<PROSE>> \o Pad(n - 1)

\* "" stands for a key the record does not have
ActionOpts == {"", "Final Answer", "Search", "final answer"}
InputOpts == {"", "str", "dict"}

InputToks(i) == IF i = "str" THEN <<Quote("X")>> ELSE <<"{", "}">>

RecToks(a, i) ==
    <<"{">>
    \o (IF a # "" THEN <<Quote("action"), ":", Quote(a)>> ELSE <<>>)
    \o (IF a # "" /\ i # "" THEN <<",">> ELSE <<>>)
    \o (IF i # "" THEN <<Quote("action_input"), ":">> \o InputToks(i) ELSE <<>>)
    \o <<"}">>

Records == {RecToks(a, i) : a \in ActionOpts, i \in InputOpts}

ListRecs == {RecToks("Search", "str"), RecToks("Final Answer", "str"),
             RecToks("Final Answer", ""), RecToks("", "str")}

RECURSIVE Joined(_)
Joined(rs) ==
    IF rs = <<>> THEN <<>>
    ELSE IF Len(rs) = 1 THEN rs[1]
    ELSE rs[1] \o <<",">> \o Joined(Tail(rs))

ListToks(rs) == <<"[">> \o Joined(rs) \o <<"]">>

Lists == {ListToks(rs) : rs \in UNION {[1..n -> ListRecs] : n \in 0..MaxElems}}

OddBodies ==
    { <<>>, <<WS>>, <<PROSE>>, <<"{">>, <<Quote("X")>>, <<Quote("action")>>, <<"7">>,
      <<"{", Quote("action"), ":", Quote("Search"), ",", "}">>,
      <<"{", Quote("action"), ":", Quote("Search"), ",",
             Quote("action"), ":", Quote("Final Answer"), ",",
             Quote("action_input"), ":", Quote("X"), "}">>,
      <<"{", Quote("action"), ":", "7", ",", Quote("action_input"), ":", Quote("X"), "}">>,
      <<"[", Quote("X"), "]">>,
      <<"[", Quote("action"), ",", Quote("action_input"), "]">>,
      <<"[", "[">> \o RecToks("Search", "str") \o <<"]", "]">> }

Block(tagged, body) ==
    Fence \o (IF tagged THEN <<TAG>> ELSE <<>>) \o <<WS>> \o body \o <<WS>> \o Fence

FencedTexts ==
    {Pad(p) \o Block(tg, b) \o Pad(q) :
        p \in 0..MaxPad, q \in 0..MaxPad, tg \in BOOLEAN, b \in Records}
    \cup {Block(tg, b) : tg \in BOOLEAN, b \in Lists \cup OddBodies}

\* fences with too few or too many backticks on either side
IrregularTexts ==
    {open \o b \o close :
        open \in {<<BT, BT>>, Fence},
        close \in {<<>>, <<BT>>, <<BT, BT>>, Fence, <<BT, BT, BT, BT>>},
        b \in {<<PROSE>>, RecToks("Final Answer", "str"), RecToks("Search", "str")}}

TwoBlockTexts ==
    {Block(FALSE, b1) \o <<WS>> \o Block(FALSE, b2) :
        b1 \in {<<PROSE>>, RecToks("Search", "str")},
        b2 \in {RecToks("Final Answer", "str"), RecToks("Search", "str")}}

BareTexts == Records \cup OddBodies \cup {Pad(n) : n \in 0..(MaxPad + 1)}

Texts == FencedTexts \cup IrregularTexts \cup TwoBlockTexts \cup BareTexts

\* what the language model may answer when asked to correct an output
Replies ==
    { Block(FALSE, RecToks("Search", "str")),
      Block(FALSE, RecToks("Final Answer", "str")),
      Block(TRUE, RecToks("Search", "str")),
      Block(FALSE, <<"{">>),
      <<PROSE>> }

(***************************************************************************)
(* The state of the other objects: the calls of parse that run at the same *)
(* time, a docstore, a prompt selector and an RSS loader.  Each            *)
(* specification moves one of them and leaves the others as constructed.   *)
(***************************************************************************)
VARIABLES
    calls,                  \* the calls of parse in progress, by caller
    _dict,                  \* InMemoryDocstore._dict
    constructed_with,       \* the _dict argument of InMemoryDocstore.__init__
    added,                  \* what the add calls that returned have given
    ds_call,                \* the last call on the docstore and its result
    default_prompt,         \* ConditionalPromptSelector.default_prompt
    conditionals,           \* ConditionalPromptSelector.conditionals
    sel_call,               \* the last get_prompt call and its result
    urls,                   \* RSSFeedLoader.urls
    opml,                   \* RSSFeedLoader.opml
    continue_on_failure,    \* RSSFeedLoader.continue_on_failure
    rss_new,                \* the arguments and result of RSSFeedLoader(...)
    rss_pc,                 \* where lazy_load stands
    feeds,                  \* what self._get_urls returned to lazy_load
    feed_i,                 \* the position of the url loop in feeds
    entry_j,                \* the position of the entry loop in feed.entries
    yielded,                \* the articles lazy_load has yielded
    fetched,                \* the positions feedparser.parse was called for
    rss_error,              \* the exception lazy_load raised
    records,                \* MlflowCallbackHandler.records
    metrics,                \* MlflowCallbackHandler.metrics
    document,               \* DocstoreExplorer.document
    lookup_str,             \* DocstoreExplorer.lookup_str
    lookup_index,           \* DocstoreExplorer.lookup_index
    ex_call,                \* the last call of the explorer and what it gave
    last_search             \* what the docstore gave the explorer's last search

cvars == <<calls>>
dvars == <<_dict, constructed_with, added, ds_call>>
svars == <<default_prompt, conditionals, sel_call>>
rvars == <<urls, opml, continue_on_failure, rss_new, rss_pc, feeds, feed_i,
           entry_j, yielded, fetched, rss_error>>
mvars == <<records, metrics>>
evars == <<document, lookup_str, lookup_index, ex_call, last_search>>

\* the number of callers that may have a call of parse in progress
MaxCalls == 2
CallIds == 1..MaxCalls

\* no call in progress
IdleCall ==
    [callee |-> "none", text |-> <<>>, pc |-> "idle", response |-> PyNone,
     outcome |-> NoOutcome, reply |-> <<>>, corrections |-> 0]

NoCalls == calls = [c \in CallIds |-> IdleCall]

\* InMemoryDocstore(): no call made
NoDsCall == [op |-> "none", arg |-> PyNone, result |-> PyNone]
EmptyDocstore ==
    /\ _dict = <<>> /\ constructed_with = PyNone /\ added = <<>>
    /\ ds_call = NoDsCall

\* a selector without conditionals, no call made
NoSelCall == [llm |-> "none", result |-> "none", yielded |-> 0, evaluated |-> 0]
BareSelector ==
    /\ default_prompt = "prompt_a" /\ conditionals = <<>> /\ sel_call = NoSelCall

\* no RSSFeedLoader constructed
NoRssNew == [urls |-> PyNone, opml |-> PyNone, result |-> "none"]
NoLoader ==
    /\ urls = PyNone /\ opml = PyNone /\ continue_on_failure = TRUE
    /\ rss_new = NoRssNew /\ rss_pc = "none" /\ feeds = <<>>
    /\ feed_i = 0 /\ entry_j = 0 /\ yielded = <<>> /\ fetched = <<>>
    /\ rss_error = NoExc

\* MlflowCallbackHandler.__init__, lines 272-300: every counter 0, every list
\* empty
MetricKeys ==
    {"step", "starts", "ends", "errors", "text_ctr", "chain_starts",
     "chain_ends", "llm_starts", "llm_ends", "llm_streams", "tool_starts",
     "tool_ends", "agent_ends"}
MethodLists ==
    {"on_llm_start_records", "on_llm_token_records", "on_llm_end_records",
     "on_chain_start_records", "on_chain_end_records",
     "on_tool_start_records", "on_tool_end_records", "on_text_records",
     "on_agent_finish_records", "on_agent_action_records"}
RecordKeys == MethodLists \cup {"action_records"}
NoHandler ==
    /\ metrics = [k \in MetricKeys |-> 0]
    /\ records = [k \in RecordKeys |-> <<>>]

\* DocstoreExplorer.__init__, lines 69-74, no call made
NoExCall == [op |-> "none", term |-> PyNone, result |-> PyNone]
NoExplorer ==
    /\ document = PyNone /\ lookup_str = "" /\ lookup_index = 0
    /\ ex_call = NoExCall /\ last_search = PyNone

(***************************************************************************)
(* The state: the fields of the retrying parser, and the call in progress. *)
(***************************************************************************)
VARIABLES
    base_parser,            \* StructuredChatOutputParserWithRetries.base_parser
    output_fixing_parser,   \* "None", or the parser the OutputFixingParser wraps
    callee,                 \* the parser whose parse is called
    text,                   \* the argument of the call
    pc,                     \* "idle", "Parsing", "Correcting", "Returned"
    outcome,                \* what the call returned or raised
    reply,                  \* the corrected text of the language model
    corrections             \* calls of the corrector during this call

vars == <<base_parser, output_fixing_parser, callee, text, pc, outcome, reply,
          corrections>>

fields == <<base_parser, output_fixing_parser>>

\* the objects no parser touches
beside_parsers == <<cvars, dvars, svars, rvars, mvars, evars>>

Parsers == {"structured", "convo"}

\* StructuredChatOutputParserWithRetries(): the defaults of the fields
FreshParsers ==
    /\ base_parser = "structured"
    /\ output_fixing_parser = "None"
    /\ callee = "none"
    /\ text = <<>>
    /\ pc = "idle"
    /\ outcome = NoOutcome
    /\ reply = <<>>
    /\ corrections = 0

Init ==
    /\ FreshParsers /\ NoCalls /\ EmptyDocstore /\ BareSelector /\ NoLoader
    /\ NoHandler /\ NoExplorer

Idle ==
    /\ callee' = "none"
    /\ text' = <<>>
    /\ pc' = "idle"
    /\ outcome' = NoOutcome
    /\ reply' = <<>>
    /\ corrections' = 0

\* from_llm(llm, base_parser); "None" is an argument left out
FromLlm(llm, bp) ==
    /\ pc = "idle"
    /\ IF llm # "None"
       THEN /\ output_fixing_parser' = (IF bp # "None" THEN bp ELSE "structured")
            /\ base_parser' = "structured"
       ELSE IF bp # "None"
       THEN /\ base_parser' = bp
            /\ output_fixing_parser' = "None"
       ELSE /\ base_parser' = "structured"
            /\ output_fixing_parser' = "None"
    /\ Idle
    /\ UNCHANGED beside_parsers

Call(p, t) ==
    /\ pc = "idle"
    /\ callee' = p
    /\ text' = t
    /\ pc' = "Parsing"
    /\ UNCHANGED <<fields, outcome, reply, corrections, beside_parsers>>

Return(o) ==
    /\ outcome' = o
    /\ pc' = "Returned"

Structured ==
    /\ pc = "Parsing" /\ callee = "structured"
    /\ Return(StructuredParse(text))
    /\ UNCHANGED <<fields, callee, text, reply, corrections, beside_parsers>>

Convo ==
    /\ pc = "Parsing" /\ callee = "convo"
    /\ Return(ConvoParse(text))
    /\ UNCHANGED <<fields, callee, text, reply, corrections, beside_parsers>>

\* StructuredChatOutputParserWithRetries.parse, no output_fixing_parser
RetriesBase ==
    /\ pc = "Parsing" /\ callee = "retries" /\ output_fixing_parser = "None"
    /\ Return(RetriesParseBase(base_parser, text))
    /\ UNCHANGED <<fields, callee, text, reply, corrections, beside_parsers>>

\* RetriesFix asking for a correction whatever the first parse did
MutRetriesFixAlways ==
    /\ pc = "Parsing" /\ callee = "retries" /\ output_fixing_parser # "None"
    /\ pc' = "Correcting"
    /\ UNCHANGED <<fields, callee, text, outcome, reply, corrections,
                   beside_parsers>>

\* OutputFixingParser.parse: the wrapped parser on the text as it came; the
\* language model is asked for a correction when that fails
RetriesFix ==
    /\ pc = "Parsing" /\ callee = "retries" /\ output_fixing_parser # "None"
    /\ LET first == ParserParse(output_fixing_parser, text) IN
       IF first.kind # "Failed"
       THEN Return(RetriesExcept(Ret(first), text))
       ELSE pc' = "Correcting" /\ UNCHANGED outcome
    /\ UNCHANGED <<fields, callee, text, reply, corrections, beside_parsers>>

\* the language model answers r, which the wrapped parser parses
Corrected(r) ==
    /\ pc = "Correcting"
    /\ reply' = r
    /\ corrections' = corrections + 1
    /\ Return(RetriesExcept(AsTried(ParserParse(output_fixing_parser, r)), text))
    /\ UNCHANGED <<fields, callee, text, beside_parsers>>

\* the call of the language model fails
CorrectorRaises ==
    /\ pc = "Correcting"
    /\ corrections' = corrections + 1
    /\ Return(RetriesExcept(Raise("LLMError"), text))
    /\ UNCHANGED <<fields, callee, text, reply, beside_parsers>>

\* the caller takes the outcome
Consume ==
    /\ pc = "Returned"
    /\ Idle
    /\ UNCHANGED <<fields, beside_parsers>>

Next ==
    \/ \E llm \in {"None", "llm"}, bp \in {"None"} \cup Parsers : FromLlm(llm, bp)
    \/ \E p \in Parsers \cup {"retries"}, t \in Texts : Call(p, t)
    \/ Structured
    \/ Convo
    \/ RetriesBase
    \/ RetriesFix
    \/ \E r \in Replies : Corrected(r)
    \/ CorrectorRaises
    \/ Consume

Spec == Init /\ [][Next]_vars

(***************************************************************************)
(* The terms of the properties.                                            *)
(***************************************************************************)
Returned(p) == pc = "Returned" /\ callee = p

Succeeded == outcome.kind \in {"Action", "Finish"}

\* a block delimited by three backticks on either side
HasFencedBlock(t) ==
    \E i \in 1..Len(t), j \in 1..Len(t) :
        j >= i + 3 /\ TripleAt(t, i) /\ TripleAt(t, j)

\* what the content of a fenced block, its tag json left out, holds
BlockValue(content) ==
    JsonLoads(IF content # <<>> /\ content[1] = TAG THEN Tail(content) ELSE content)

\* the records of the fenced blocks of a text
FencedRecords(t) ==
    {BlockValue(SubSeq(t, ij[1] + 3, ij[2] - 1)).val :
        ij \in {x \in (1..Len(t)) \X (1..Len(t)) :
                  /\ x[2] >= x[1] + 3
                  /\ TripleAt(t, x[1]) /\ TripleAt(t, x[2])
                  /\ BlockValue(SubSeq(t, x[1] + 3, x[2] - 1)).ok
                  /\ IsDict(BlockValue(SubSeq(t, x[1] + 3, x[2] - 1)).val)}}

\* the value the lenient parser loads from the block it finds
LenientLoaded(t) ==
    LET m == ReSearch(t) IN
    IF m.matched THEN JsonLoads(Strip(m.group1)) ELSE JFail

\* the atoms of a value: the inverse of json.loads
KeyOrder == <<"action", "action_input", "Final Answer", "final answer", "Search", "X">>

RECURSIVE Ser(_)
RECURSIVE SerMembers(_, _)
RECURSIVE SerElems(_)
SerMembers(f, n) ==
    IF n > Len(KeyOrder) THEN <<>>
    ELSE LET rest == SerMembers(f, n + 1) IN
         IF KeyOrder[n] \in DOMAIN f
         THEN <<Quote(KeyOrder[n]), ":">> \o Ser(f[KeyOrder[n]])
              \o (IF rest = <<>> THEN <<>> ELSE <<",">> \o rest)
         ELSE rest
SerElems(es) ==
    IF es = <<>> THEN <<>>
    ELSE Ser(es[1]) \o (IF Len(es) = 1 THEN <<>> ELSE <<",">> \o SerElems(Tail(es)))
Ser(v) ==
    CASE v.t = "str" -> <<Quote(v.s)>>
      [] v.t = "int" -> <<v.n>>
      [] v.t = "dict" -> <<"{">> \o SerMembers(v.f, 1) \o <<"}">>
      [] v.t = "list" -> <<"[">> \o SerElems(v.es) \o <<"]">>

\* an outcome without its log: the decision, or that the call failed
Decision(o) ==
    CASE o.kind = "Action" -> [kind |-> "Action", tool |-> o.tool, tool_input |-> o.tool_input]
      [] o.kind = "Finish" -> [kind |-> "Finish", output |-> o.return_values.output]
      [] o.kind = "Failed" -> [kind |-> "Failed", type |-> o.error.type]
      [] OTHER -> [kind |-> "None"]

\* the text an OutputParserException carries in its message
ErrorText(e) == IF Len(e.message) = 2 THEN e.message[2] ELSE <<"?">>

(***************************************************************************)
(* C1.  Lenient parser: a text with no fenced block (no two markers of     *)
(* three backticks) is returned as Finish, its output the whole text.      *)
(* The parser fails on a text whose fence is closed by two backticks.      *)
(***************************************************************************)
C1_NoFenceIsFinish ==
    (Returned("structured") /\ ~HasFencedBlock(text))
        => outcome = AgentFinish(PyText(text), text)

(***************************************************************************)
(* C2.  Both parsers: a text with a fenced block whose record has action   *)
(* "Final Answer" and action_input X is parsed to Finish with output X.    *)
(* The lenient parser fails on a block tagged json.                        *)
(***************************************************************************)
C2_FinalAnswerIsFinish ==
    (pc = "Returned" /\ callee \in Parsers)
        => \A r \in FencedRecords(text) :
              (HasKey(r, "action") /\ HasKey(r, "action_input")
                 /\ r.f["action"] = FINAL_ANSWER)
                  => outcome = AgentFinish(r.f["action_input"], text)

(***************************************************************************)
(* C3.  Both parsers: a text with a fenced block whose record has an       *)
(* action A other than "Final Answer" and action_input I is parsed to      *)
(* Action with tool A and tool input I.  The lenient parser fails on a     *)
(* block tagged json.                                                      *)
(***************************************************************************)
C3_OtherActionIsAction ==
    (pc = "Returned" /\ callee \in Parsers)
        => \A r \in FencedRecords(text) :
              (HasKey(r, "action") /\ HasKey(r, "action_input")
                 /\ r.f["action"] # FINAL_ANSWER)
                  => outcome = AgentAction(r.f["action"], r.f["action_input"], text)

(***************************************************************************)
(* C4.  Lenient parser: when the block it finds holds a list of records,   *)
(* the outcome is the decision the first record alone gives in a block of  *)
(* its own, a failure of the first record included.                        *)
(***************************************************************************)
ListOfRecords(v) ==
    IsList(v) /\ Len(v.es) >= 1 /\ \A n \in 1..Len(v.es) : IsDict(v.es[n])

\* C4: a list of records is decided by its first record
C4_FirstRecordDecides ==
    (Returned("structured") /\ LenientLoaded(text).ok
        /\ ListOfRecords(LenientLoaded(text).val))
        => Decision(outcome) =
              Decision(StructuredParse(
                  Fence \o Ser(LenientLoaded(text).val.es[1]) \o Fence))

\* a list of two records that decide differently, the first one an action
C4_Witness ==
    /\ Returned("structured") /\ LenientLoaded(text).ok
    /\ ListOfRecords(LenientLoaded(text).val)
    /\ Len(LenientLoaded(text).val.es) = 2
    /\ outcome.kind = "Action"
    /\ StructuredParse(Fence \o Ser(LenientLoaded(text).val.es[2]) \o Fence).kind
          = "Finish"

(***************************************************************************)
(* C5.  Strict parser: a record without the key action or without the key  *)
(* action_input makes parse fail with OutputParserException, whose message *)
(* carries the text as it was passed.                                      *)
(***************************************************************************)
LacksKey(v) == IsDict(v) /\ (~HasKey(v, "action") \/ ~HasKey(v, "action_input"))

\* C5: the strict parser fails on a record that lacks a key, with the text
C5_StrictMissingKeyFails ==
    (Returned("convo") /\ ~ParseJsonMarkdown(text).raised
        /\ LacksKey(ParseJsonMarkdown(text).value))
        => /\ outcome.kind = "Failed"
           /\ outcome.error.type = "OutputParserException"
           /\ ErrorText(outcome.error) = text

\* a record in a fenced block with an action and no action_input
C5_Witness ==
    /\ Returned("convo") /\ ~ParseJsonMarkdown(text).raised
    /\ HasFencedBlock(text)
    /\ HasKey(ParseJsonMarkdown(text).value, "action")
    /\ ~HasKey(ParseJsonMarkdown(text).value, "action_input")
    /\ outcome.kind = "Failed"

(***************************************************************************)
(* C6.  Lenient parser: a record with an action and no action_input does   *)
(* not fail, whatever the action, and an empty dict stands for the input.  *)
(* The parser fails on "Final Answer" without action_input.                *)
(***************************************************************************)
C6_MissingInputDefaults ==
    (Returned("structured") /\ LenientLoaded(text).ok
        /\ HasKey(LenientLoaded(text).val, "action")
        /\ ~HasKey(LenientLoaded(text).val, "action_input"))
        => /\ Succeeded
           /\ (outcome.kind = "Action" => outcome.tool_input = EmptyDict)
           /\ (outcome.kind = "Finish" => outcome.return_values.output = EmptyDict)

(***************************************************************************)
(* C7.  Whatever parser is called and whatever went wrong, a failed call   *)
(* raises OutputParserException with the message "Could not parse LLM      *)
(* output: " followed by the text passed to the call.                      *)
(***************************************************************************)
C7_OneErrorKind ==
    (pc = "Returned" /\ outcome.kind = "Failed")
        => /\ outcome.error.type = "OutputParserException"
           /\ outcome.error.message = <<"Could not parse LLM output: ", text>>

\* the retrying parser fails on a record that lacks a key
C7_Witness ==
    /\ Returned("retries") /\ outcome.kind = "Failed"
    /\ \E n \in 1..Len(outcome.error.cause) : outcome.error.cause[n] = "KeyError"

(***************************************************************************)
(* C8.  The log of every Action and Finish is the text passed to parse,    *)
(* also when the retrying parser had the text corrected.  After a          *)
(* correction the log is the corrected text.                               *)
(***************************************************************************)
C8_LogIsText ==
    (pc = "Returned" /\ Succeeded) => outcome.log = text

(***************************************************************************)
(* C9.  A call is in Parsing until it ends; it ends in exactly one of      *)
(* Action, Finish and Failed; no outcome exists before; only the retrying  *)
(* parser with a corrector waits in between; and no step of a call changes *)
(* the fields of a parser.                                                 *)
(***************************************************************************)
IsAction(o) == o.kind = "Action" /\ DOMAIN o = {"kind", "tool", "tool_input", "log"}
IsFinish(o) == o.kind = "Finish" /\ DOMAIN o = {"kind", "return_values", "log"}
IsFailed(o) == o.kind = "Failed" /\ DOMAIN o = {"kind", "error"}

ExactlyOne(o) ==
    Cardinality({k \in {"Action", "Finish", "Failed"} :
        \/ k = "Action" /\ IsAction(o)
        \/ k = "Finish" /\ IsFinish(o)
        \/ k = "Failed" /\ IsFailed(o)}) = 1

C9_Terminal ==
    /\ pc \in {"idle", "Parsing", "Correcting", "Returned"}
    /\ pc = "Returned" => ExactlyOne(outcome)
    /\ pc # "Returned" => outcome = NoOutcome
    /\ pc = "Correcting" => (callee = "retries" /\ output_fixing_parser # "None")

\* C9: Parsing, then exactly one of Action, Finish, Failed; no field changes
C9_ParsingThenTerminal ==
    /\ []C9_Terminal
    /\ [][(pc = "Parsing" /\ ~(callee = "retries" /\ output_fixing_parser # "None"))
             => pc' = "Returned"]_vars
    /\ [][pc # "idle" => fields' = fields]_vars

\* a call that found no fenced block has returned
C9_Witness ==
    /\ Returned("structured") /\ ~ReSearch(text).matched /\ IsFinish(outcome)

FirstParse == ParserParse(output_fixing_parser, text)

\* the parse the fixing parser makes of the correction
SecondParse == ParserParse(output_fixing_parser, reply)

C11_CorrectorOnceAfterFailure ==
    /\ corrections \in {0, 1}
    /\ pc = "Correcting"
          => /\ callee = "retries" /\ output_fixing_parser # "None"
             /\ FirstParse.kind = "Failed" /\ corrections = 0
    /\ corrections = 1
          => /\ Returned("retries") /\ output_fixing_parser # "None"
             /\ FirstParse.kind = "Failed"
    /\ (Returned("retries") /\ output_fixing_parser # "None")
          => /\ FirstParse.kind # "Failed" => corrections = 0
             /\ (FirstParse.kind = "Failed" /\ reply \in Replies
                   /\ SecondParse.kind # "Failed")
                  => (Succeeded /\ outcome = SecondParse /\ corrections = 1)

\* a call that failed on its text returned the parse of one correction
C11_Witness ==
    /\ Returned("retries") /\ output_fixing_parser # "None"
    /\ FirstParse.kind = "Failed" /\ SecondParse.kind = "Action"
    /\ outcome.kind = "Action" /\ corrections = 1

(***************************************************************************)
(* C12.  Retrying parser with a corrector, both attempts failing: the call *)
(* raises a new OutputParserException with the message "Could not parse    *)
(* LLM output: " and the text of the call, whose cause is the error of the *)
(* corrective attempt; the corrector is not asked again.                   *)
(***************************************************************************)
\* the error the corrective attempt ended with: that of the parse of the
\* correction, or that of the language model when it gave none
SecondError ==
    IF reply \in Replies THEN SecondParse.error ELSE Exc("LLMError", <<>>, <<>>)

SecondFailed ==
    /\ Returned("retries") /\ output_fixing_parser # "None"
    /\ FirstParse.kind = "Failed"
    /\ reply \in Replies => SecondParse.kind = "Failed"

CallTexts ==
    { <<PROSE>>,
      Block(TRUE, RecToks("Final Answer", "str")),
      Block(FALSE, ListToks(<<RecToks("Search", "str"), RecToks("Final Answer", "str")>>)),
      Block(FALSE, RecToks("Search", "")),
      Block(FALSE, <<"{">>) }

\* corrections the language model gives: one that parses, one that does not
CallReplies ==
    { Block(FALSE, RecToks("Final Answer", "str")), Block(FALSE, <<"{">>) }

\* the parser object whose parse a call runs
Inner(cl) ==
    IF cl.callee = "retries"
    THEN IF output_fixing_parser # "None" THEN output_fixing_parser ELSE base_parser
    ELSE cl.callee

\* the text that parser was given: the correction once there is one
Given(cl) == IF cl.corrections = 1 /\ cl.reply # <<>> THEN cl.reply ELSE cl.text

\* the frame of a call whose parser finished its try block with tried:
\* the handler of the parser, then lines 61-69 for the retrying parser
Finished(cl, tried) ==
    LET inner == ExceptException(tried, Given(cl)) IN
    IF cl.callee # "retries"
    THEN [cl EXCEPT !.pc = "Returned", !.outcome = inner]
    ELSE IF output_fixing_parser # "None" /\ inner.kind = "Failed"
            /\ cl.corrections = 0
         THEN [cl EXCEPT !.pc = "Correcting", !.response = PyNone]
         ELSE [cl EXCEPT !.pc = "Returned",
                         !.outcome = RetriesExcept(AsTried(inner), cl.text)]

StartCall(c, p, t) ==
    /\ calls[c].pc = "idle"
    /\ calls' = [calls EXCEPT ![c] = [IdleCall EXCEPT !.callee = p, !.text = t,
                                                     !.pc = "Parsing"]]
    /\ UNCHANGED <<vars, dvars, svars, rvars, mvars, evars>>

\* lines 27-34 in the frame of a call: the match, json.loads, the first of a list
StructuredLoad(cl) ==
    LET action_match == ReSearch(Given(cl)) IN
    IF ~action_match.matched
    THEN Finished(cl, Ret(AgentFinish(PyText(Given(cl)), Given(cl))))
    ELSE LET loaded == JsonLoads(Strip(action_match.group1)) IN
         IF ~loaded.ok THEN Finished(cl, Raise("JSONDecodeError"))
         ELSE LET first == FirstOfList(loaded.val) IN
              IF first.raised THEN Finished(cl, first)
              ELSE [cl EXCEPT !.pc = "Loaded", !.response = first.value]

\* line 29 of the strict parser in the frame of a call
ConvoLoad(cl) ==
    LET loaded == ParseJsonMarkdown(Given(cl)) IN
    IF loaded.raised THEN Finished(cl, loaded)
    ELSE [cl EXCEPT !.pc = "Loaded", !.response = loaded.value]

\* the decision of either parser on the response of the frame
Decide(cl, response) ==
    Finished([cl EXCEPT !.response = PyNone],
             IF Inner(cl) = "structured"
             THEN StructuredDecide(response, Given(cl))
             ELSE ConvoDecide(response, Given(cl)))

\* LoadStep of a parser that keeps response in a field of its own: a caller
\* finds there what another caller loaded and has not yet decided on
MutLoadStepCached(c) ==
    /\ calls[c].pc = "Parsing"
    /\ LET loading == {d \in CallIds : calls[d].pc = "Loaded"} IN
       calls' = [calls EXCEPT ![c] =
                   IF loading # {}
                   THEN [calls[c] EXCEPT !.pc = "Loaded",
                            !.response = calls[CHOOSE d \in loading : TRUE].response]
                   ELSE IF Inner(calls[c]) = "structured"
                        THEN StructuredLoad(calls[c]) ELSE ConvoLoad(calls[c])]
    /\ UNCHANGED <<vars, dvars, svars, rvars, mvars, evars>>

LoadStep(c) ==
    /\ calls[c].pc = "Parsing"
    /\ calls' = [calls EXCEPT ![c] =
                   IF Inner(calls[c]) = "structured"
                   THEN StructuredLoad(calls[c]) ELSE ConvoLoad(calls[c])]
    /\ UNCHANGED <<vars, dvars, svars, rvars, mvars, evars>>

\* DecideStep reading the response another caller loaded last
MutDecideStepShared(c) ==
    /\ calls[c].pc = "Loaded"
    /\ LET others == {d \in CallIds \ {c} : calls[d].pc = "Loaded"} IN
       calls' = [calls EXCEPT ![c] =
                   Decide(calls[c],
                          IF others # {}
                          THEN calls[CHOOSE d \in others : TRUE].response
                          ELSE calls[c].response)]
    /\ UNCHANGED <<vars, dvars, svars, rvars, mvars, evars>>

DecideStep(c) ==
    /\ calls[c].pc = "Loaded"
    /\ calls' = [calls EXCEPT ![c] = Decide(calls[c], calls[c].response)]
    /\ UNCHANGED <<vars, dvars, svars, rvars, mvars, evars>>

\* the language model answers r, which the wrapped parser then parses
Correction(c, r) ==
    /\ calls[c].pc = "Correcting"
    /\ calls' = [calls EXCEPT ![c] = [calls[c] EXCEPT !.pc = "Parsing",
                                        !.reply = r, !.corrections = 1]]
    /\ UNCHANGED <<vars, dvars, svars, rvars, mvars, evars>>

\* the call of the language model fails
CorrectionFails(c) ==
    /\ calls[c].pc = "Correcting"
    /\ calls' = [calls EXCEPT ![c] =
                   [calls[c] EXCEPT !.pc = "Returned", !.corrections = 1,
                       !.outcome = RetriesExcept(Raise("LLMError"), calls[c].text)]]
    /\ UNCHANGED <<vars, dvars, svars, rvars, mvars, evars>>

\* the caller takes the outcome
TakeOutcome(c) ==
    /\ calls[c].pc = "Returned"
    /\ calls' = [calls EXCEPT ![c] = IdleCall]
    /\ UNCHANGED <<vars, dvars, svars, rvars, mvars, evars>>

NextCalls ==
    \/ \E llm \in {"None", "llm"}, bp \in {"None"} \cup Parsers :
          NoCalls /\ FromLlm(llm, bp)
    \/ \E c \in CallIds, p \in Parsers \cup {"retries"}, t \in CallTexts :
          StartCall(c, p, t)
    \/ \E c \in CallIds : LoadStep(c)
    \/ \E c \in CallIds : DecideStep(c)
    \/ \E c \in CallIds, r \in CallReplies : Correction(c, r)
    \/ \E c \in CallIds : CorrectionFails(c)
    \/ \E c \in CallIds : TakeOutcome(c)

SpecCalls == Init /\ [][NextCalls]_<<vars, cvars>>

\* what a call returns when no other call is in progress: the outcome the
\* parser computes in one piece from the text, and the correction if any
Alone(cl) ==
    IF cl.callee # "retries" THEN ParserParse(cl.callee, cl.text)
    ELSE IF output_fixing_parser = "None"
    THEN RetriesParseBase(base_parser, cl.text)
    ELSE LET first == ParserParse(output_fixing_parser, cl.text) IN
         IF first.kind # "Failed" THEN RetriesExcept(Ret(first), cl.text)
         ELSE IF cl.reply = <<>> THEN RetriesExcept(Raise("LLMError"), cl.text)
         ELSE RetriesExcept(AsTried(ParserParse(output_fixing_parser, cl.reply)),
                            cl.text)

(***************************************************************************)
(* C13.  Two calls of parse on the same parser with the same text return   *)
(* equal outcomes, whatever calls were made in between: the same Action,   *)
(* the same Finish, or failures with the same message and cause.  The      *)
(* parser is one of the two parsers or the retrying parser without a       *)
(* corrector; with a corrector the outcome also depends on its answer.     *)
(***************************************************************************)
C13_SameTextSameOutcome ==
    \A c \in CallIds, d \in CallIds :
        (/\ calls[c].pc = "Returned" /\ calls[d].pc = "Returned"
         /\ calls[c].callee \in Parsers \/ output_fixing_parser = "None"
         /\ calls[d].callee = calls[c].callee
         /\ calls[d].text = calls[c].text)
            => calls[d].outcome = calls[c].outcome

\* two callers hold the outcome of the same parser for the same text, a
\* list of records: an Action
C13_Witness ==
    \E c \in CallIds, d \in CallIds :
        /\ c # d
        /\ calls[c].pc = "Returned" /\ calls[d].pc = "Returned"
        /\ calls[c].callee = "structured" /\ calls[d].callee = "structured"
        /\ calls[d].text = calls[c].text
        /\ IsList(BlockValue(SubSeq(calls[c].text, 4, Len(calls[c].text) - 3)).val)
        /\ calls[c].outcome.kind = "Action"

(***************************************************************************)
(* C14.  Calls of parse on the same parsers that overlap, their steps in   *)
(* any order: every call returns what it returns when it runs alone.       *)
(***************************************************************************)
C14_AsWhenAlone ==
    \A c \in CallIds :
        calls[c].pc = "Returned" => calls[c].outcome = Alone(calls[c])

\* a call returned while another caller stood between its two steps
C14_Witness ==
    \E c \in CallIds, d \in CallIds :
        /\ calls[c].pc = "Returned" /\ calls[c].outcome.kind = "Finish"
        /\ calls[d].pc = "Loaded" /\ calls[d].text # calls[c].text
        /\ ReSearch(calls[c].text).matched

(***************************************************************************)
(* InMemoryDocstore                                                        *)
(***************************************************************************)
\* the number of ids the callers use
MaxIds == 3
Ids == 1..MaxIds

Document(page_content) == [t |-> "Document", page_content |-> page_content]
Documents == {Document("a"), Document("b")}

\* the dictionaries from ids to documents
Dicts == UNION {[x -> Documents] : x \in SUBSET Ids}

\* {**a, **b}
Merge(a, b) ==
    [k \in DOMAIN a \cup DOMAIN b |-> IF k \in DOMAIN b THEN b[k] ELSE a[k]]

\* ValueError(f"Tried to add ids that already exist: {overlapping}")
AlreadyExist(overlapping) ==
    Exc("ValueError", <<"Tried to add ids that already exist: ", overlapping>>, <<>>)

\* f"ID {search} not found."
NotFound(search) == PyStr(<<"ID ", search, " not found.">>)

\* the documents the add calls that returned gave for each id, in their order
Record(given, texts) ==
    [k \in DOMAIN given \cup DOMAIN texts |->
        (IF k \in DOMAIN given THEN given[k] ELSE <<>>)
        \o (IF k \in DOMAIN texts THEN <<texts[k]>> ELSE <<>>)]

\* __init__(_dict=None)
InitDocstore ==
    /\ constructed_with \in {PyNone} \cup {PyDict(d) : d \in Dicts}
    /\ _dict = (IF constructed_with # PyNone THEN constructed_with.f ELSE <<>>)
    /\ added = <<>>
    /\ ds_call = NoDsCall
    /\ FreshParsers /\ NoCalls /\ BareSelector /\ NoLoader
    /\ NoHandler /\ NoExplorer

\* Add that assigns the merged dictionary before it looks for overlap
MutAddMergeFirst(texts) ==
    LET overlapping == DOMAIN texts \cap DOMAIN _dict IN
    /\ _dict' = Merge(_dict, texts)
    /\ IF overlapping # {}
       THEN /\ ds_call' = [op |-> "add", arg |-> texts,
                           result |-> AlreadyExist(overlapping)]
            /\ UNCHANGED added
       ELSE /\ added' = Record(added, texts)
            /\ ds_call' = [op |-> "add", arg |-> texts, result |-> PyNone]
    /\ UNCHANGED <<constructed_with, vars, cvars, svars, rvars, mvars, evars>>

\* Add without the check for overlap: dict.update
MutAddUpdate(texts) ==
    /\ _dict' = Merge(_dict, texts)
    /\ added' = Record(added, texts)
    /\ ds_call' = [op |-> "add", arg |-> texts, result |-> PyNone]
    /\ UNCHANGED <<constructed_with, vars, cvars, svars, rvars, mvars, evars>>

\* add(texts), lines 15-26
Add(texts) ==
    LET overlapping == DOMAIN texts \cap DOMAIN _dict IN
    /\ IF overlapping # {}
       THEN /\ ds_call' = [op |-> "add", arg |-> texts,
                           result |-> AlreadyExist(overlapping)]
            /\ UNCHANGED <<_dict, added>>
       ELSE /\ _dict' = Merge(_dict, texts)
            /\ added' = Record(added, texts)
            /\ ds_call' = [op |-> "add", arg |-> texts, result |-> PyNone]
    /\ UNCHANGED <<constructed_with, vars, cvars, svars, rvars, mvars, evars>>

\* search(search), lines 28-40
Search(search) ==
    /\ ds_call' = [op |-> "search", arg |-> search,
                   result |-> IF search \notin DOMAIN _dict THEN NotFound(search)
                              ELSE _dict[search]]
    /\ UNCHANGED <<_dict, added, constructed_with, vars, cvars, svars, rvars, mvars, evars>>

NextDocstore ==
    \/ \E texts \in Dicts : Add(texts)
    \/ \E search \in Ids : Search(search)

SpecDocstore == InitDocstore /\ [][NextDocstore]_dvars

\* add has raised
Raised(call) == call.op = "add" /\ call.result # PyNone

(***************************************************************************)
(* C15.  add called with a dictionary of which an id is stored raises      *)
(* ValueError and leaves the store as it was: no id of the call is added,  *)
(* no stored document replaced.                                            *)
(***************************************************************************)
C15_OverlapLeavesStore ==
    [][(ds_call'.op = "add" /\ DOMAIN ds_call'.arg \cap DOMAIN _dict # {})
         => /\ ds_call'.result.type = "ValueError"
            /\ _dict' = _dict]_dvars

\* add has raised on a dictionary that also held an id not stored and a
\* document other than the stored one
C15_Witness ==
    /\ Raised(ds_call)
    /\ \E k \in DOMAIN ds_call.arg : k \notin DOMAIN _dict
    /\ \E k \in DOMAIN ds_call.arg \cap DOMAIN _dict : ds_call.arg[k] # _dict[k]

(***************************************************************************)
(* C16.  search(id) returns the Document the constructor's dictionary or   *)
(* the one add that returned and held id gave for it, and "ID <id> not     *)
(* found." when neither held id; no stored id is removed or given another  *)
(* document, and search leaves the store as it is.                         *)
(***************************************************************************)
\* what search must return for id k
Expected(k) ==
    IF constructed_with # PyNone /\ k \in DOMAIN constructed_with.f
    THEN constructed_with.f[k]
    ELSE IF k \in DOMAIN added THEN added[k][1] ELSE NotFound(k)

C16_SearchAnswers ==
    /\ \A k \in DOMAIN added :
          /\ Len(added[k]) = 1
          /\ constructed_with # PyNone => k \notin DOMAIN constructed_with.f
    /\ ds_call.op = "search" => ds_call.result = Expected(ds_call.arg)
    /\ \A k \in Ids : (k \in DOMAIN _dict => _dict[k] = Expected(k))
                       /\ (k \notin DOMAIN _dict => Expected(k) = NotFound(k))

C16_SearchReturnsGiven ==
    /\ []C16_SearchAnswers
    /\ [][\A k \in DOMAIN _dict : k \in DOMAIN _dict' /\ _dict'[k] = _dict[k]]_dvars
    /\ [][ds_call'.op = "search" => _dict' = _dict]_dvars

\* search has returned the document of an add, and "not found" before it
C16_Witness ==
    /\ ds_call.op = "search" /\ ds_call.arg \in DOMAIN added
    /\ ds_call.result = added[ds_call.arg][1]
    /\ \E k \in Ids : k \notin DOMAIN _dict

\* C16 as stated: what search returns is what the adds that returned gave,
\* and "not found" for an id none of them held
C16_OnlyAddsGive ==
    ds_call.op = "search"
        => ds_call.result = (IF ds_call.arg \in DOMAIN added
                             THEN added[ds_call.arg][1]
                             ELSE NotFound(ds_call.arg))

(***************************************************************************)
(* ConditionalPromptSelector                                               *)
(***************************************************************************)
\* the number of conditionals of a selector
MaxConds == 2

Prompts == {"prompt_a", "prompt_b", "prompt_c"}

\* language models: a BaseLLM, a BaseChatModel, and one that is neither
Models == {"BaseLLM", "BaseChatModel", "BaseLanguageModel"}

\* is_llm, is_chat_model, and a condition of the caller that holds for all
Conditions == {"is_llm", "is_chat_model", "always"}

\* condition(llm)
Holds(condition, model) ==
    \/ condition = "is_llm" /\ model = "BaseLLM"
    \/ condition = "is_chat_model" /\ model = "BaseChatModel"
    \/ condition = "always"

ConditionalLists ==
    UNION {[1..n -> Conditions \X Prompts] : n \in 0..MaxConds}

\* ConditionalPromptSelector(default_prompt=..., conditionals=...)
InitSelector ==
    /\ default_prompt \in Prompts
    /\ conditionals \in ConditionalLists
    /\ sel_call = NoSelCall
    /\ FreshParsers /\ NoCalls /\ EmptyDocstore /\ NoLoader
    /\ NoHandler /\ NoExplorer

RECURSIVE MutNextPromptLast(_, _, _, _)
\* NextPrompt going on after a match, so that the last match decides
MutNextPromptLast(cs, n, model, default) ==
    IF n > Len(cs) THEN [result |-> default, yielded |-> 0, evaluated |-> Len(cs)]
    ELSE LET rest == MutNextPromptLast(cs, n + 1, model, default) IN
         IF Holds(cs[n][1], model) /\ rest.yielded = 0
         THEN [result |-> cs[n][2], yielded |-> n, evaluated |-> Len(cs)]
         ELSE rest

RECURSIVE NextPrompt(_, _, _, _)
\* next((prompt for condition, prompt in conditionals if condition(llm)),
\* default_prompt) from the n-th conditional on: the generator calls the
\* conditions in list order and stops at the first that holds
NextPrompt(cs, n, model, default) ==
    IF n > Len(cs) THEN [result |-> default, yielded |-> 0, evaluated |-> Len(cs)]
    ELSE IF Holds(cs[n][1], model)
         THEN [result |-> cs[n][2], yielded |-> n, evaluated |-> n]
         ELSE NextPrompt(cs, n + 1, model, default)

\* get_prompt(llm), lines 30-42
GetPrompt(model) ==
    /\ sel_call' = [llm |-> model] @@ NextPrompt(conditionals, 1, model, default_prompt)
    /\ UNCHANGED <<default_prompt, conditionals, vars, cvars, dvars, rvars, mvars, evars>>

NextSelector == \E model \in Models : GetPrompt(model)

SpecSelector == InitSelector /\ [][NextSelector]_svars

\* the conditionals whose condition holds for the model of the last call
Holding == {n \in 1..Len(conditionals) : Holds(conditionals[n][1], sel_call.llm)}

(***************************************************************************)
(* C17.  get_prompt returns the prompt of the first conditional, in list   *)
(* order, whose condition holds for the model; it falls back to            *)
(* default_prompt exactly when no condition holds; the conditions after    *)
(* the first that holds are not called and do not change the result.       *)
(***************************************************************************)
C17_FirstHoldingOrDefault ==
    sel_call.llm # "none"
        => /\ Holding # {}
                => /\ sel_call.yielded = Least(Holding)
                   /\ sel_call.result = conditionals[Least(Holding)][2]
                   /\ sel_call.evaluated = Least(Holding)
                   /\ \A cs \in ConditionalLists :
                        (/\ Len(cs) >= Least(Holding)
                         /\ SubSeq(cs, 1, Least(Holding))
                              = SubSeq(conditionals, 1, Least(Holding)))
                          => NextPrompt(cs, 1, sel_call.llm, default_prompt).result
                               = sel_call.result
           /\ Holding = {}
                => /\ sel_call.yielded = 0
                   /\ sel_call.result = default_prompt
                   /\ sel_call.evaluated = Len(conditionals)
           /\ sel_call.yielded = 0 <=> Holding = {}

\* two conditions hold for the model, with different prompts, neither the
\* default prompt: the first was returned
C17_Witness ==
    /\ sel_call.llm # "none" /\ Cardinality(Holding) = 2
    /\ conditionals[1][2] # conditionals[2][2]
    /\ default_prompt \notin {conditionals[1][2], conditionals[2][2]}
    /\ sel_call.result = conditionals[1][2]

(***************************************************************************)
(* RSSFeedLoader.  A feed url stands for what the network gives for it:    *)
(* whether feedparser.parse fetches it, and for each entry of the feed     *)
(* whether its article loads.                                              *)
(***************************************************************************)
\* the number of feed urls of a loader
MaxFeeds == 2

\* the entries of a feed: "ok" loads, "fails" makes NewsURLLoader.load()[0]
\* raise, "nolink" is an entry without the attribute link
EntryLists ==
    { <<>>, <<"ok">>, <<"ok", "ok">>, <<"fails", "ok">>, <<"ok", "fails", "ok">>,
      <<"nolink", "ok">> }

\* fetch: "ok", "bozo" (feedparser sets feed.bozo), "raises" (parse raises)
Feed(fetch, entries) == [fetch |-> fetch, entries |-> entries]
FeedUrls ==
    {Feed("ok", es) : es \in EntryLists} \cup {Feed("bozo", <<>>), Feed("raises", <<>>)}

UrlLists == UNION {[1..n -> FeedUrls] : n \in 0..MaxFeeds}

\* an OPML text, given by the feed urls its outline lists
Opml(listed) == PyStr(listed)
OpmlTexts == {Opml(<<>>), Opml(<<Feed("bozo", <<>>), Feed("ok", <<"ok">>)>>)}

\* bool(x) of an argument: None and the empty sequence are false
Truthy(x) == x # PyNone /\ x.es # <<>>

\* RSSFeedLoader(urls, opml, continue_on_failure), lines 47-66
Construct(u, o, cof) ==
    /\ rss_pc = "none"
    /\ IF (u = PyNone) = (o = PyNone)
       THEN /\ rss_new' = [urls |-> u, opml |-> o, result |-> "ValueError"]
            /\ rss_pc' = "rejected"
            /\ UNCHANGED <<urls, opml, continue_on_failure>>
       ELSE /\ rss_new' = [urls |-> u, opml |-> o, result |-> "loader"]
            /\ rss_pc' = "constructed"
            /\ urls' = u /\ opml' = o /\ continue_on_failure' = cof
    /\ UNCHANGED <<feeds, feed_i, entry_j, yielded, fetched, rss_error,
                   vars, cvars, dvars, svars,
                   mvars, evars>>

\* the argument the property _get_urls reads, lines 84-94
SourceRead == IF Truthy(urls) THEN urls ELSE opml

\* lazy_load with feed position i reached: the url loop goes on or ends
AtFeed(i, us) ==
    /\ feed_i' = i
    /\ entry_j' = 0
    /\ rss_pc' = (IF i > Len(us) THEN "done" ELSE "fetch")

\* lazy_load up to the url loop, line 106: self._get_urls is evaluated.
\* listparser.parse(None) is outside this code: it raises or lists no feed
GetUrls ==
    /\ rss_pc = "constructed"
    /\ \/ /\ Truthy(urls)
          /\ feeds' = urls.es /\ AtFeed(1, urls.es) /\ UNCHANGED rss_error
       \/ /\ ~Truthy(urls) /\ opml # PyNone
          /\ feeds' = opml.s /\ AtFeed(1, opml.s) /\ UNCHANGED rss_error
       \/ /\ ~Truthy(urls) /\ opml = PyNone
          /\ feeds' = <<>> /\ AtFeed(1, <<>>) /\ UNCHANGED rss_error
       \/ /\ ~Truthy(urls) /\ opml = PyNone
          /\ rss_error' = Exc("TypeError", <<"listparser.parse">>, <<>>)
          /\ rss_pc' = "raised"
          /\ UNCHANGED <<feeds, feed_i, entry_j>>
    /\ UNCHANGED <<urls, opml, continue_on_failure, rss_new, yielded, fetched,
                   vars, cvars, dvars, svars,
                   mvars, evars>>

\* the exception of the first try block for feed i, lines 108-112
FetchError(i) ==
    IF feeds[i].fetch = "bozo" THEN Exc("ValueError", <<"Error fetching ", i>>, <<>>)
    ELSE Exc("URLError", <<i>>, <<>>)

\* the exception of the second try block at entry j of feed i, lines 119-126
EntryError(i, j) ==
    IF feeds[i].entries[j] = "nolink" THEN Exc("AttributeError", <<"link", i, j>>, <<>>)
    ELSE Exc("ArticleException", <<i, j>>, <<>>)

\* Fetch leaving the url loop at a feed it cannot fetch
MutFetchBreak ==
    /\ rss_pc = "fetch"
    /\ fetched' = Append(fetched, feed_i)
    /\ IF feeds[feed_i].fetch # "ok"
       THEN IF ~continue_on_failure
            THEN /\ rss_error' = FetchError(feed_i) /\ rss_pc' = "raised"
                 /\ UNCHANGED <<feed_i, entry_j>>
            ELSE /\ rss_pc' = "done"
                 /\ UNCHANGED <<rss_error, feed_i, entry_j>>
       ELSE /\ UNCHANGED rss_error
            /\ IF feeds[feed_i].entries = <<>>
               THEN AtFeed(feed_i + 1, feeds)
               ELSE rss_pc' = "entries" /\ entry_j' = 1 /\ UNCHANGED feed_i
    /\ UNCHANGED <<urls, opml, continue_on_failure, rss_new, feeds, yielded,
                   vars, cvars, dvars, svars,
                   mvars, evars>>

\* lines 107-117: feedparser.parse(url) and its handler; an empty
\* feed.entries ends the entry loop at once
Fetch ==
    /\ rss_pc = "fetch"
    /\ fetched' = Append(fetched, feed_i)
    /\ IF feeds[feed_i].fetch # "ok"
       THEN IF ~continue_on_failure
            THEN /\ rss_error' = FetchError(feed_i) /\ rss_pc' = "raised"
                 /\ UNCHANGED <<feed_i, entry_j>>
            ELSE /\ AtFeed(feed_i + 1, feeds) /\ UNCHANGED rss_error
       ELSE /\ UNCHANGED rss_error
            /\ IF feeds[feed_i].entries = <<>>
               THEN AtFeed(feed_i + 1, feeds)
               ELSE rss_pc' = "entries" /\ entry_j' = 1 /\ UNCHANGED feed_i
    /\ UNCHANGED <<urls, opml, continue_on_failure, rss_new, feeds, yielded,
                   vars, cvars, dvars, svars,
                   mvars, evars>>

\* lines 118-131: one round of the entry loop, and the handler around the
\* whole loop.  The handler formats entry.link for the log, which raises
\* for an entry without link.
Entry ==
    /\ rss_pc = "entries"
    /\ LET kind == feeds[feed_i].entries[entry_j] IN
       IF kind = "ok"
       THEN /\ yielded' = Append(yielded, <<feed_i, entry_j>>)
            /\ UNCHANGED rss_error
            /\ IF entry_j < Len(feeds[feed_i].entries)
               THEN entry_j' = entry_j + 1 /\ UNCHANGED <<feed_i, rss_pc>>
               ELSE AtFeed(feed_i + 1, feeds)
       ELSE /\ UNCHANGED yielded
            /\ IF ~continue_on_failure \/ kind = "nolink"
               THEN /\ rss_error' = EntryError(feed_i, entry_j)
                    /\ rss_pc' = "raised"
                    /\ UNCHANGED <<feed_i, entry_j>>
               ELSE AtFeed(feed_i + 1, feeds) /\ UNCHANGED rss_error
    /\ UNCHANGED <<urls, opml, continue_on_failure, rss_new, feeds, fetched,
                   vars, cvars, dvars, svars,
                   mvars, evars>>

NextRss ==
    \/ \E u \in {PyNone} \cup {PyList(us) : us \in UrlLists},
          o \in {PyNone} \cup OpmlTexts, cof \in BOOLEAN : Construct(u, o, cof)
    \/ GetUrls
    \/ Fetch
    \/ Entry

InitRss ==
    /\ NoLoader /\ FreshParsers /\ NoCalls /\ EmptyDocstore /\ BareSelector
    /\ NoHandler /\ NoExplorer

SpecRss == InitRss /\ [][NextRss]_rvars

\* RSSFeedLoader(...) has returned or raised
Constructed == rss_new.result = "loader"
Rejected == rss_new.result = "ValueError"

(***************************************************************************)
(* C18.  RSSFeedLoader(...) succeeds exactly when one of urls and opml is  *)
(* given, and raises ValueError otherwise; the loader of every successful  *)
(* construction reads its feed urls from an argument that was given.       *)
(***************************************************************************)
C18_OneSourceUsable ==
    /\ Constructed <=> (rss_new.result # "none"
                          /\ (rss_new.urls = PyNone) # (rss_new.opml = PyNone))
    /\ Rejected <=> (rss_new.result # "none"
                       /\ (rss_new.urls = PyNone) = (rss_new.opml = PyNone))
    /\ Constructed => SourceRead # PyNone

\* the entries of feed i that do not load, and whether the feed fails
BadEntries(i) ==
    {j \in 1..Len(feeds[i].entries) : feeds[i].entries[j] # "ok"}
Failing(i) == feeds[i].fetch # "ok" \/ BadEntries(i) # {}
FailingFeeds == {i \in 1..Len(feeds) : Failing(i)}

\* the exception feed i fails with
FailureOf(i) ==
    IF feeds[i].fetch # "ok" THEN FetchError(i)
    ELSE EntryError(i, Least(BadEntries(i)))

\* the articles of the feeds before position i, and of feed i before entry j
ArticlesBefore(i, j) ==
    {a \in UNION {{<<m, n>> : n \in 1..Len(feeds[m].entries)} : m \in 1..Len(feeds)} :
        a[1] < i \/ (a[1] = i /\ a[2] < j)}

Range(q) == {q[n] : n \in 1..Len(q)}

\* lazy_load raised what self._get_urls raised, before the url loop
RaisedByGetUrls == rss_pc = "raised" /\ fetched = <<>>

C20_LaterEntriesYielded ==
    (continue_on_failure /\ rss_pc = "done")
        => \A i \in 1..Len(feeds) :
             \A j \in 1..Len(feeds[i].entries), k \in 1..Len(feeds[i].entries) :
                (/\ feeds[i].fetch = "ok" /\ k < j
                 /\ feeds[i].entries[k] = "fails" /\ feeds[i].entries[j] = "ok")
                    => <<i, j>> \in Range(yielded)


(***************************************************************************)
(* MlflowCallbackHandler (callbacks/mlflow_callback.py): the records the   *)
(* callbacks keep.  A record is the dictionary a callback builds: its      *)
(* "action", the counters at that moment and what the callback was given.  *)
(* self.mlflg is the logger of the run: its calls change nothing of the    *)
(* handler, and each of them may raise, which ends the callback there.     *)
(***************************************************************************)

\* the number of callbacks between two resets
MaxSteps == 3

\* the number of prompts of one on_llm_start, of generations of one on_llm_end
MaxItems == 2

\* what a logging call of a callback with one record may do: nothing raises,
\* self.mlflg.metrics raises (before the appends), self.mlflg.jsonf raises
\* (after them)
Failures == {"none", "metrics", "jsonf"}

\* self.metrics[k] += 1 for the keys a callback counts
Bump(keys) ==
    [k \in MetricKeys |-> IF k \in keys THEN metrics[k] + 1 ELSE metrics[k]]

\* resp = {"action": ...}; resp.update(self.metrics); with what was given
Resp(action, counted, given) ==
    [action |-> action, metrics |-> counted, given |-> given]

\* an append that leaves records["action_records"] alone
MutAppendOwn(recs, key, resp) ==
    [recs EXCEPT ![key] = Append(@, resp)]

\* self.records[key].append(resp); self.records["action_records"].append(resp)
AppendBoth(recs, key, resp) ==
    [recs EXCEPT ![key] = Append(@, resp),
                 !["action_records"] = Append(@, resp)]

\* the loop of on_llm_start and of on_llm_end over the first n items
RECURSIVE AppendEach(_, _, _, _)
AppendEach(recs, key, resp, n) ==
    IF n = 0 THEN recs
    ELSE AppendBoth(AppendEach(recs, key, resp, n - 1), key, resp)

\* a callback that keeps one record: count, build resp, log the counters,
\* append, write the record
OneRecord(key, action, keys, given, fails) ==
    /\ metrics["step"] < MaxSteps
    /\ metrics' = Bump(keys)
    /\ records' = IF fails = "metrics" THEN records
                  ELSE AppendBoth(records, key, Resp(action, Bump(keys), given))
    /\ UNCHANGED <<vars, cvars, dvars, svars, rvars, evars>>

\* a callback that keeps one record for each item: an exception of the
\* logger or of analyze_text ends it after the records of the first done items
ManyRecords(key, action, keys, given, n, done) ==
    /\ metrics["step"] < MaxSteps
    /\ done \in 0..n
    /\ metrics' = Bump(keys)
    /\ records' = AppendEach(records, key, Resp(action, Bump(keys), given), done)
    /\ UNCHANGED <<vars, cvars, dvars, svars, rvars, evars>>

\* a callback that only counts
NoRecord(keys) ==
    /\ metrics["step"] < MaxSteps
    /\ metrics' = Bump(keys)
    /\ UNCHANGED <<records, vars, cvars, dvars, svars, rvars, evars>>

\* _reset, lines 302-306
Reset ==
    /\ metrics' = [k \in MetricKeys |-> 0]
    /\ records' = [k \in RecordKeys |-> <<>>]
    /\ UNCHANGED <<vars, cvars, dvars, svars, rvars, evars>>

\* on_llm_start(serialized, prompts), lines 308-329
on_llm_start(n, done) ==
    ManyRecords("on_llm_start_records", "on_llm_start",
                {"step", "llm_starts", "starts"}, "prompt", n, done)

\* on_llm_new_token(token), lines 331-345
on_llm_new_token(fails) ==
    OneRecord("on_llm_token_records", "on_llm_new_token",
              {"step", "llm_streams"}, "token", fails)

\* on_llm_end(response), lines 347-382
on_llm_end(n, done) ==
    ManyRecords("on_llm_end_records", "on_llm_end",
                {"step", "llm_ends", "ends"}, "generation", n, done)

\* on_llm_error, lines 384-389
on_llm_error == NoRecord({"step", "errors"})

\* on_chain_start(serialized, inputs), lines 391-412
on_chain_start(fails) ==
    OneRecord("on_chain_start_records", "on_chain_start",
              {"step", "chain_starts", "starts"}, "inputs", fails)

\* on_chain_end(outputs), lines 414-430
on_chain_end(fails) ==
    OneRecord("on_chain_end_records", "on_chain_end",
              {"step", "chain_ends", "ends"}, "outputs", fails)

\* on_chain_error, lines 432-437
on_chain_error == NoRecord({"step", "errors"})

\* on_tool_start(serialized, input_str), lines 439-459
on_tool_start(fails) ==
    OneRecord("on_tool_start_records", "on_tool_start",
              {"step", "tool_starts", "starts"}, "input_str", fails)

\* on_tool_end(output), lines 461-476
on_tool_end(fails) ==
    OneRecord("on_tool_end_records", "on_tool_end",
              {"step", "tool_ends", "ends"}, "output", fails)

\* on_tool_error, lines 478-483
on_tool_error == NoRecord({"step", "errors"})

\* on_text(text), lines 485-501
on_text(fails) ==
    OneRecord("on_text_records", "on_text", {"step", "text_ctr"}, "text", fails)

\* on_agent_finish(finish), lines 503-523
on_agent_finish(fails) ==
    OneRecord("on_agent_finish_records", "on_agent_finish",
              {"step", "agent_ends", "ends"}, "finish", fails)

\* on_agent_action(action), lines 525-544: counted as a start of a tool
on_agent_action(fails) ==
    OneRecord("on_agent_action_records", "on_agent_action",
              {"step", "tool_starts", "starts"}, "action", fails)

\* flush_tracker(langchain_asset, finish), lines 617-648: the tables are
\* logged, which may raise; with finish the run ends and the handler resets
flush_tracker(finish, raises) ==
    IF finish /\ ~raises THEN Reset
    ELSE UNCHANGED <<mvars, vars, cvars, dvars, svars, rvars, evars>>

NextMlflow ==
    \/ \E n \in 0..MaxItems, done \in 0..MaxItems : on_llm_start(n, done)
    \/ \E fails \in Failures : on_llm_new_token(fails)
    \/ \E n \in 0..MaxItems, done \in 0..MaxItems : on_llm_end(n, done)
    \/ on_llm_error
    \/ \E fails \in Failures : on_chain_start(fails)
    \/ \E fails \in Failures : on_chain_end(fails)
    \/ on_chain_error
    \/ \E fails \in Failures : on_tool_start(fails)
    \/ \E fails \in Failures : on_tool_end(fails)
    \/ on_tool_error
    \/ \E fails \in Failures : on_text(fails)
    \/ \E fails \in Failures : on_agent_finish(fails)
    \/ \E fails \in Failures : on_agent_action(fails)
    \/ \E finish \in BOOLEAN, raises \in BOOLEAN : flush_tracker(finish, raises)

SpecMlflow == Init /\ [][NextMlflow]_mvars

\* the elements of q that are in S, in the order of q
RECURSIVE Filter(_, _)
Filter(q, S) ==
    IF q = <<>> THEN <<>>
    ELSE (IF Head(q) \in S THEN <<Head(q)>> ELSE <<>>) \o Filter(Tail(q), S)

\* the sum of the lengths of the lists of records under the keys in S
RECURSIVE TotalLen(_)
TotalLen(S) ==
    IF S = {} THEN 0
    ELSE LET k == CHOOSE x \in S : TRUE
         IN Len(records[k]) + TotalLen(S \ {k})

\* C21: records["action_records"] holds exactly the records of the lists of
\* the methods: each of its records is in one of those lists, each list is
\* the part of it its method added, in that order, the records stand in the
\* order of the callbacks (of their steps), and its length is the sum of the
\* lengths of the lists.
C21_ActionRecordsHoldAll ==
    LET all == records["action_records"] IN
    /\ Len(all) = TotalLen(MethodLists)
    /\ \A k \in MethodLists : Filter(all, Range(records[k])) = records[k]
    /\ \A i \in DOMAIN all : \E k \in MethodLists : all[i] \in Range(records[k])
    /\ \A i, j \in DOMAIN all :
         i < j => all[i].metrics["step"] <= all[j].metrics["step"]

\* records of two methods at least, after a callback that added none
C21_Witness ==
    /\ Len(records["action_records"]) >= 2
    /\ Cardinality({k \in MethodLists : records[k] # <<>>}) >= 2
    /\ metrics["step"] > Len(records["action_records"])



(***************************************************************************)
(* DocstoreExplorer (agents/react/base.py) over an InMemoryDocstore.  A    *)
(* page_content is a sequence of words and of blank lines: PARA is the     *)
(* separator "\n\n" of split.  A lookup term is one word, or the empty     *)
(* string.                                                                 *)
(***************************************************************************)

\* the number of times lookup may move to the next result of one term
MaxLookups == 2

PARA == "PARA"

\* str.lower
Lower(w) == IF w = "Alpha" THEN "alpha" ELSE w

LowerAll(p) == [n \in DOMAIN p |-> Lower(p[n])]

LookupTerms == {"", "Alpha", "alpha", "beta"}

\* the pages of the store: three paragraphs; an empty first paragraph
Pages ==
    {Document(<<"Alpha", PARA, "beta", "alpha", PARA, "alpha">>),
     Document(<<PARA, "beta">>)}

PageDicts == UNION {[x -> Pages] : x \in SUBSET Ids}

\* s in p, for a word or the empty string s and a paragraph p
In(s, p) == s = "" \/ \E n \in DOMAIN p : p[n] = s

\* page_content.split("\n\n")
RECURSIVE Split(_)
Split(content) ==
    LET seps == {n \in DOMAIN content : content[n] = PARA} IN
    IF seps = {} THEN <<content>>
    ELSE <<SubSeq(content, 1, Least(seps) - 1)>>
         \o Split(SubSeq(content, Least(seps) + 1, Len(content)))

\* _paragraphs, lines 108-112, of a saved document
Paragraphs(doc) == Split(doc.page_content)

\* _summary, lines 104-106
Summary(doc) == Paragraphs(doc)[1]

\* [p for p in self._paragraphs if self.lookup_str in p.lower()]
RECURSIVE Matching(_, _)
Matching(ps, s) ==
    IF ps = <<>> THEN <<>>
    ELSE (IF In(s, LowerAll(Head(ps))) THEN <<Head(ps)>> ELSE <<>>)
         \o Matching(Tail(ps), s)

\* self.docstore.search(term) of the InMemoryDocstore
Found(term) == IF term \notin DOMAIN _dict THEN NotFound(term) ELSE _dict[term]

IsDocument(x) == x.t = "Document"

\* ValueError("Cannot lookup without a successful search first")
CannotLookup ==
    RaiseExc(Exc("ValueError",
                 <<"Cannot lookup without a successful search first">>, <<>>))

\* DocstoreExplorer(InMemoryDocstore(_dict))
InitExplorer ==
    /\ _dict \in PageDicts
    /\ constructed_with = PyDict(_dict)
    /\ added = <<>>
    /\ ds_call = NoDsCall
    /\ NoExplorer
    /\ FreshParsers /\ NoCalls /\ BareSelector /\ NoLoader /\ NoHandler

\* search that keeps the saved document when the store gives a message
MutSearchKeeps(term) ==
    LET result == Found(term) IN
    /\ ds_call' = [op |-> "search", arg |-> term, result |-> result]
    /\ last_search' = result
    /\ IF IsDocument(result)
       THEN /\ document' = result
            /\ ex_call' = [op |-> "search", term |-> PyInt(term),
                           result |-> Ret(PyStr(Summary(result)))]
       ELSE /\ document' = document
            /\ ex_call' = [op |-> "search", term |-> PyInt(term),
                           result |-> Ret(result)]
    /\ UNCHANGED <<lookup_str, lookup_index, _dict, added, constructed_with,
                   vars, cvars, svars, rvars, mvars>>

\* search(term), lines 76-84
ExplorerSearch(term) ==
    LET result == Found(term) IN
    /\ ds_call' = [op |-> "search", arg |-> term, result |-> result]
    /\ last_search' = result
    /\ IF IsDocument(result)
       THEN /\ document' = result
            /\ ex_call' = [op |-> "search", term |-> PyInt(term),
                           result |-> Ret(PyStr(Summary(result)))]
       ELSE /\ document' = PyNone
            /\ ex_call' = [op |-> "search", term |-> PyInt(term),
                           result |-> Ret(result)]
    /\ UNCHANGED <<lookup_str, lookup_index, _dict, added, constructed_with,
                   vars, cvars, svars, rvars, mvars>>

\* what lookup returns for the term and the index it has set
LookupResult(doc, str, index) ==
    LET lookups == Matching(Paragraphs(doc), str) IN
    CASE lookups = <<>> -> PyStr(<<"No Results">>)
      [] lookups # <<>> /\ index >= Len(lookups) -> PyStr(<<"No More Results">>)
      [] OTHER -> PyStr(<<"(Result ", index + 1, "/", Len(lookups), ") ">>
                        \o lookups[index + 1])

\* lookup that sets the term and the index before it looks for the document
MutLookupSetsFirst(term) ==
    LET same == Lower(term) = lookup_str
        index == IF same THEN lookup_index + 1 ELSE 0
    IN
    /\ same => lookup_index < MaxLookups
    /\ lookup_str' = Lower(term)
    /\ lookup_index' = index
    /\ ex_call' = [op |-> "lookup", term |-> PyStr(<<term>>),
                   result |-> IF document = PyNone THEN CannotLookup
                              ELSE Ret(LookupResult(document, Lower(term), index))]
    /\ UNCHANGED <<document, last_search, dvars, vars, cvars, svars, rvars,
                   mvars>>

\* lookup(term), lines 86-102
ExplorerLookup(term) ==
    LET same == Lower(term) = lookup_str
        index == IF same THEN lookup_index + 1 ELSE 0
    IN
    /\ (document # PyNone /\ same) => lookup_index < MaxLookups
    /\ IF document = PyNone
       THEN /\ ex_call' = [op |-> "lookup", term |-> PyStr(<<term>>),
                           result |-> CannotLookup]
            /\ UNCHANGED <<lookup_str, lookup_index>>
       ELSE /\ lookup_str' = Lower(term)
            /\ lookup_index' = index
            /\ ex_call' = [op |-> "lookup", term |-> PyStr(<<term>>),
                           result |-> Ret(LookupResult(document, Lower(term),
                                                       index))]
    /\ UNCHANGED <<document, last_search, dvars, vars, cvars, svars, rvars,
                   mvars>>

NextExplorer ==
    \/ \E term \in Ids : ExplorerSearch(term)
    \/ \E term \in LookupTerms : ExplorerLookup(term)

SpecExplorer == InitExplorer /\ [][NextExplorer]_<<evars, dvars>>



\* the call the explorer just returned from raised ValueError
RaisedValueError(call) == call.result.raised /\ call.result.exc.type = "ValueError"

\* the words of a page_content before its first blank line
FirstParagraph(content) ==
    LET n == CHOOSE m \in 0..Len(content) :
                 /\ \A i \in 1..m : content[i] # PARA
                 /\ m = Len(content) \/ content[m + 1] = PARA
    IN SubSeq(content, 1, n)

\* C22: no document is saved exactly when no search was made or the last
\* search was not given a Document by the store; a lookup called then raises
\* ValueError and leaves lookup_str and lookup_index as they were.
C22_LookupRaisesWithoutDocument ==
    /\ [](document = PyNone <=> ~IsDocument(last_search))
    /\ [][(ex_call'.op = "lookup" /\ ~IsDocument(last_search))
            => /\ RaisedValueError(ex_call')
               /\ lookup_str' = lookup_str
               /\ lookup_index' = lookup_index]_evars

\* a lookup raised after a search that found nothing, later than lookups
\* that had set a term and moved to its second result
C22_Witness ==
    /\ ex_call.op = "lookup" /\ RaisedValueError(ex_call)
    /\ last_search.t = "str"
    /\ lookup_str # "" /\ lookup_index > 0

\* C23: a search for an id the store holds saves that Document and returns
\* its first paragraph; a search for any other id returns the message of the
\* store and leaves no document saved; the lookup that follows a search the
\* store answered with a message raises ValueError.
C23_SearchSavesOrClears ==
    /\ [][ex_call'.op = "search"
            => LET id == ex_call'.term.n IN
               IF id \in DOMAIN _dict
               THEN /\ document' = _dict[id]
                    /\ ex_call'.result
                         = Ret(PyStr(FirstParagraph(_dict[id].page_content)))
               ELSE /\ document' = PyNone
                    /\ ex_call'.result = Ret(NotFound(id))]_evars
    /\ [][(/\ ex_call.op = "search"
           /\ ex_call.term.n \notin DOMAIN _dict
           /\ ex_call'.op = "lookup")
            => RaisedValueError(ex_call')]_evars

\* a search that found nothing, after a search that found a document in
\* which a lookup then found a term
C23_Witness ==
    /\ ex_call.op = "search" /\ ~IsDocument(last_search)
    /\ document = PyNone
    /\ lookup_str # ""


============================================================================
